---- MODULE Spec2Model ----
(***************************************************************************)
(* Tic-tac-toe: the board (src/src/board.py), the players and the minimax  *)
(* agent (src/src/player.py) and the game loop (src/src/tic_tac_toe.py).   *)
(*                                                                         *)
(* Three specifications are given.                                         *)
(*   Spec       the application: menu, run_game and its loop, the click    *)
(*              callbacks handled inside window.update(), Continue.        *)
(*   SpecBoard  the Board and AIAgent objects under arbitrary sequences of *)
(*              calls of their methods, which reaches every assignment of  *)
(*              the 9 cells.                                               *)
(*   SpecFair   Spec with fairness: the loop keeps running and a human     *)
(*              player eventually clicks an Empty cell.                    *)
(***************************************************************************)
EXTENDS Integers, Sequences, FiniteSets, TLC

VARIABLES
  board,         \* Board.board: cell index 0..8 -> " ", "X" or "O"
  game_mode,     \* TicTacToe.game_mode
  current_turn,  \* TicTacToe.current_turn
  p1_position,   \* player_one.position
  p2_position,   \* player_two.position
  result,        \* the local `result` of run_game
  bottom_label,  \* text shown by TicTacToe.bottom_label
  pc,            \* where control is: "menu", "loop", "over"; "idle", "called"
  applied,       \* history: the marks Board.update has placed this session
  call           \* history: the most recent method call that is observed

vars == <<board, game_mode, current_turn, p1_position, p2_position, result,
          bottom_label, pc, applied, call>>

(***************************************************************************)
(* Bounds of the model.                                                    *)
(***************************************************************************)
\* Board.update is tried with positions -PosMargin .. 8+PosMargin.
PosMargin == 1
\* In SpecBoard the agent searches the fresh board and every board with at
\* most MaxSearch empty cells.
MaxSearch == 3

(***************************************************************************)
(* Values.                                                                 *)
(***************************************************************************)
\* Python's None where a mark or a name is expected.
None == "None"
\* Python's None as a player position (AIAgent.process_input, best_move).
PositionNone == -100
\* float("-inf") and float("inf"): below and above every score in -1..1.
NegInf == -2
PosInf == 2

Cells == 0..8
Marks == {"X", "O"}

\* Board.reset: 9 * [" "]
EmptyBoard == [i \in Cells |-> " "]
reset == EmptyBoard

\* Player.reset: position = -1
Player_reset == -1

\* AIAgent.__init__: the agent's own mark and its opponent's.
AIAgent(mark) == [mark |-> mark, opponent_mark |-> IF mark = "X" THEN "O" ELSE "X"]

(***************************************************************************)
(* Board                                                                   *)
(***************************************************************************)
\* Mutant of update: the test that the cell is " " is missing.
update_NoEmptyCheck(b, mark, position) ==
  IF position = PositionNone
  THEN [ok |-> FALSE, board |-> b, raised |-> TRUE]
  ELSE IF -1 < position /\ position < 9
  THEN [ok |-> TRUE, board |-> [b EXCEPT ![position] = mark], raised |-> FALSE]
  ELSE [ok |-> FALSE, board |-> b, raised |-> FALSE]

\* Board.update: the cell is written and True returned iff
\* -1 < position < 9 and the cell is " ".
\* `raised` is the TypeError of comparing -1 < None.
update(b, mark, position) ==
  IF position = PositionNone
  THEN [ok |-> FALSE, board |-> b, raised |-> TRUE]
  ELSE IF -1 < position /\ position < 9 /\ b[position] = " "
  THEN [ok |-> TRUE, board |-> [b EXCEPT ![position] = mark], raised |-> FALSE]
  ELSE [ok |-> FALSE, board |-> b, raised |-> FALSE]

\* Board.get_available_positions: [i for i, mark in enumerate(board) if mark == " "]
Indices == <<0, 1, 2, 3, 4, 5, 6, 7, 8>>
\* Mutant of get_available_positions: the enumeration starts at index 1.
get_available_positions_FromOne(b) == SelectSeq(Tail(Indices), LAMBDA i : b[i] = " ")

get_available_positions(b) == SelectSeq(Indices, LAMBDA i : b[i] = " ")

\* The Empty cells of b, as a set.
EmptyCells(b) == {i \in Cells : b[i] = " "}

\* Board.is_full: " " not in board
is_full(b) == \A i \in Cells : b[i] # " "

\* Mutant of check_state: the rows are tested without `!= " "`.
check_state_BlankRow(b) ==
  IF b[0] = b[1] /\ b[1] = b[2] THEN b[0]
  ELSE IF b[3] = b[4] /\ b[4] = b[5] THEN b[3]
  ELSE IF b[6] = b[7] /\ b[7] = b[8] THEN b[6]
  ELSE IF b[0] = b[3] /\ b[3] = b[6] /\ b[6] # " " THEN b[0]
  ELSE IF b[1] = b[4] /\ b[4] = b[7] /\ b[7] # " " THEN b[1]
  ELSE IF b[2] = b[5] /\ b[5] = b[8] /\ b[8] # " " THEN b[2]
  ELSE IF b[0] = b[4] /\ b[4] = b[8] /\ b[8] # " " THEN b[0]
  ELSE IF b[6] = b[4] /\ b[4] = b[2] /\ b[2] # " " THEN b[6]
  ELSE None

\* Mutant of check_state: the rows are tested from the bottom up.
check_state_RowsBottomUp(b) ==
  IF b[6] = b[7] /\ b[7] = b[8] /\ b[8] # " " THEN b[6]
  ELSE IF b[3] = b[4] /\ b[4] = b[5] /\ b[5] # " " THEN b[3]
  ELSE IF b[0] = b[1] /\ b[1] = b[2] /\ b[2] # " " THEN b[0]
  ELSE IF b[0] = b[3] /\ b[3] = b[6] /\ b[6] # " " THEN b[0]
  ELSE IF b[1] = b[4] /\ b[4] = b[7] /\ b[7] # " " THEN b[1]
  ELSE IF b[2] = b[5] /\ b[5] = b[8] /\ b[8] # " " THEN b[2]
  ELSE IF b[0] = b[4] /\ b[4] = b[8] /\ b[8] # " " THEN b[0]
  ELSE IF b[6] = b[4] /\ b[4] = b[2] /\ b[2] # " " THEN b[6]
  ELSE None

\* Mutant of check_state: the loop over the columns is missing.
check_state_NoColumns(b) ==
  IF b[0] = b[1] /\ b[1] = b[2] /\ b[2] # " " THEN b[0]
  ELSE IF b[3] = b[4] /\ b[4] = b[5] /\ b[5] # " " THEN b[3]
  ELSE IF b[6] = b[7] /\ b[7] = b[8] /\ b[8] # " " THEN b[6]
  ELSE IF b[0] = b[4] /\ b[4] = b[8] /\ b[8] # " " THEN b[0]
  ELSE IF b[6] = b[4] /\ b[4] = b[2] /\ b[2] # " " THEN b[6]
  ELSE None

\* Board.check_state: rows, then columns, then 0-4-8, then 6-4-2.
check_state(b) ==
  IF b[0] = b[1] /\ b[1] = b[2] /\ b[2] # " " THEN b[0]
  ELSE IF b[3] = b[4] /\ b[4] = b[5] /\ b[5] # " " THEN b[3]
  ELSE IF b[6] = b[7] /\ b[7] = b[8] /\ b[8] # " " THEN b[6]
  ELSE IF b[0] = b[3] /\ b[3] = b[6] /\ b[6] # " " THEN b[0]
  ELSE IF b[1] = b[4] /\ b[4] = b[7] /\ b[7] # " " THEN b[1]
  ELSE IF b[2] = b[5] /\ b[5] = b[8] /\ b[8] # " " THEN b[2]
  ELSE IF b[0] = b[4] /\ b[4] = b[8] /\ b[8] # " " THEN b[0]
  ELSE IF b[6] = b[4] /\ b[4] = b[2] /\ b[2] # " " THEN b[6]
  ELSE None

(***************************************************************************)
(* AIAgent                                                                 *)
(*                                                                         *)
(* The search writes the shared board in place and restores it, so every   *)
(* operator here takes the board as it is on entry and yields the board as *)
(* it is on return together with its value.  The `depth` argument of       *)
(* minimax is passed along by the code and never read; the operators yield *)
(* the greatest depth that a call was made with.                           *)
(***************************************************************************)
RECURSIVE minimax(_, _, _, _), MaxLoop(_, _, _, _, _, _, _), MinLoop(_, _, _, _, _, _, _)
RECURSIVE InputLoop(_, _, _, _, _, _, _)

\* max(a, b) on depths.
Deeper(a, b) == IF a > b THEN a ELSE b

\* Mutant of minimax: a line of the opponent's mark is not scored.
minimax_NoOpponentWin(b, self, depth, is_maximazing) ==
  LET winner == check_state(b) IN
  IF winner = self.mark THEN [score |-> 1, board |-> b, depth |-> depth]
  ELSE IF is_full(b) THEN [score |-> 0, board |-> b, depth |-> depth]
  ELSE IF is_maximazing
       THEN MaxLoop(b, self, depth, get_available_positions(b), 1, NegInf, depth)
       ELSE MinLoop(b, self, depth, get_available_positions(b), 1, PosInf, depth)

\* Mutant of minimax: the board is not tested for being full.
minimax_NoFullTest(b, self, depth, is_maximazing) ==
  LET winner == check_state(b) IN
  IF winner = self.mark THEN [score |-> 1, board |-> b, depth |-> depth]
  ELSE IF winner = self.opponent_mark THEN [score |-> -1, board |-> b, depth |-> depth]
  ELSE IF is_maximazing
       THEN MaxLoop(b, self, depth, get_available_positions(b), 1, NegInf, depth)
       ELSE MinLoop(b, self, depth, get_available_positions(b), 1, PosInf, depth)

\* AIAgent.minimax
minimax(b, self, depth, is_maximazing) ==
  LET winner == check_state(b) IN
  IF winner = self.mark THEN [score |-> 1, board |-> b, depth |-> depth]
  ELSE IF winner = self.opponent_mark THEN [score |-> -1, board |-> b, depth |-> depth]
  ELSE IF is_full(b) THEN [score |-> 0, board |-> b, depth |-> depth]
  ELSE IF is_maximazing
       THEN MaxLoop(b, self, depth, get_available_positions(b), 1, NegInf, depth)
       ELSE MinLoop(b, self, depth, get_available_positions(b), 1, PosInf, depth)

\* AIAgent.minimax, the loop of the maximizing branch, from the i-th of
\* `positions` on: place the own mark, recurse, clear the cell, keep the max.
MaxLoop(b, self, depth, positions, i, best_score, deepest) ==
  IF i > Len(positions) THEN [score |-> best_score, board |-> b, depth |-> deepest]
  ELSE LET pos == positions[i]
           r == minimax([b EXCEPT ![pos] = self.mark], self, depth + 1, FALSE)
       IN IF r.score > best_score
          THEN MaxLoop([r.board EXCEPT ![pos] = " "], self, depth, positions, i + 1,
                       r.score, Deeper(r.depth, deepest))
          ELSE MaxLoop([r.board EXCEPT ![pos] = " "], self, depth, positions, i + 1,
                       best_score, Deeper(r.depth, deepest))

\* Mutant of MinLoop: the cell is not cleared after the recursive call.
MinLoop_NoRestore(b, self, depth, positions, i, best_score, deepest) ==
  IF i > Len(positions) THEN [score |-> best_score, board |-> b, depth |-> deepest]
  ELSE LET pos == positions[i]
           r == minimax([b EXCEPT ![pos] = self.opponent_mark], self, depth + 1, TRUE)
       IN IF r.score < best_score
          THEN MinLoop(r.board, self, depth, positions, i + 1,
                       r.score, Deeper(r.depth, deepest))
          ELSE MinLoop(r.board, self, depth, positions, i + 1,
                       best_score, Deeper(r.depth, deepest))

\* AIAgent.minimax, the loop of the minimizing branch: place the opponent's
\* mark, recurse, clear the cell, keep the min.
MinLoop(b, self, depth, positions, i, best_score, deepest) ==
  IF i > Len(positions) THEN [score |-> best_score, board |-> b, depth |-> deepest]
  ELSE LET pos == positions[i]
           r == minimax([b EXCEPT ![pos] = self.opponent_mark], self, depth + 1, TRUE)
       IN IF r.score < best_score
          THEN MinLoop([r.board EXCEPT ![pos] = " "], self, depth, positions, i + 1,
                       r.score, Deeper(r.depth, deepest))
          ELSE MinLoop([r.board EXCEPT ![pos] = " "], self, depth, positions, i + 1,
                       best_score, Deeper(r.depth, deepest))

\* Mutant of InputLoop: the trial cell is not cleared after the search.
InputLoop_NoRestore(b, self, positions, i, best_score, best_move, deepest) ==
  IF i > Len(positions) THEN [position |-> best_move, board |-> b, depth |-> deepest]
  ELSE LET pos == positions[i]
           r == minimax([b EXCEPT ![pos] = self.mark], self, 0, FALSE)
       IN IF r.score > best_score
          THEN InputLoop(r.board, self, positions, i + 1, r.score, pos,
                         Deeper(r.depth, deepest))
          ELSE InputLoop(r.board, self, positions, i + 1, best_score, best_move,
                         Deeper(r.depth, deepest))

\* Mutant of InputLoop: `score >= best_score`, the last position of maximal
\* score is kept.
InputLoop_KeepsLast(b, self, positions, i, best_score, best_move, deepest) ==
  IF i > Len(positions) THEN [position |-> best_move, board |-> b, depth |-> deepest]
  ELSE LET pos == positions[i]
           r == minimax([b EXCEPT ![pos] = self.mark], self, 0, FALSE)
       IN IF r.score >= best_score
          THEN InputLoop([r.board EXCEPT ![pos] = " "], self, positions, i + 1,
                         r.score, pos, Deeper(r.depth, deepest))
          ELSE InputLoop([r.board EXCEPT ![pos] = " "], self, positions, i + 1,
                         best_score, best_move, Deeper(r.depth, deepest))

\* AIAgent.process_input, its loop from the i-th of `positions` on: the first
\* position whose score is strictly above the best so far is kept.  Each
\* search starts with minimax(0, False).
InputLoop(b, self, positions, i, best_score, best_move, deepest) ==
  IF i > Len(positions) THEN [position |-> best_move, board |-> b, depth |-> deepest]
  ELSE LET pos == positions[i]
           r == minimax([b EXCEPT ![pos] = self.mark], self, 0, FALSE)
       IN IF r.score > best_score
          THEN InputLoop([r.board EXCEPT ![pos] = " "], self, positions, i + 1,
                         r.score, pos, Deeper(r.depth, deepest))
          ELSE InputLoop([r.board EXCEPT ![pos] = " "], self, positions, i + 1,
                         best_score, best_move, Deeper(r.depth, deepest))

\* Mutant of AIAgent.process_input: best_score starts at 0 instead of -inf.
AIAgent_process_input_BestScoreZero(b, self) ==
  InputLoop(b, self, get_available_positions(b), 1, 0, PositionNone, 0)

\* AIAgent.process_input: the position it sets and the board it leaves.
AIAgent_process_input(b, self) ==
  InputLoop(b, self, get_available_positions(b), 1, NegInf, PositionNone, 0)

\* Mutant of Player.process_input: `if 1 > self.position or self.position > 9`.
Player_process_input_Or(position) ==
  IF 1 > position \/ position > 9 THEN Player_reset ELSE position

\* Player.process_input: `if 1 > self.position > 9: self.reset()`.
Player_process_input(position) ==
  IF 1 > position /\ position > 9 THEN Player_reset ELSE position

(***************************************************************************)
(* TicTacToe: the game loop                                                *)
(***************************************************************************)
\* What one window.update() delivers to the 9 board buttons.  Each click
\* overwrites the position of the same player, so only the last click of a
\* batch counts: no click, or one click on a cell.
ClickBatches == {<< >>} \cup {<<c>> : c \in Cells}

\* Mutant of handle_click_input: the position goes to the player whose turn
\* it is not.
handle_click_input_OtherPlayer(position, turn, p1, p2) ==
  IF -1 < position /\ position < 9
  THEN IF turn = "TURN_P1" THEN [p1 |-> p1, p2 |-> position]
                           ELSE [p1 |-> position, p2 |-> p2]
  ELSE [p1 |-> p1, p2 |-> p2]

\* TicTacToe.handle_click_input: the position goes to player_one on TURN_P1
\* and to player_two otherwise.
handle_click_input(position, turn, p1, p2) ==
  IF -1 < position /\ position < 9
  THEN IF turn = "TURN_P1" THEN [p1 |-> position, p2 |-> p2]
                           ELSE [p1 |-> p1, p2 |-> position]
  ELSE [p1 |-> p1, p2 |-> p2]

\* window.update() of run_game: the click callbacks run.
window_update(clicks, turn, p1, p2) ==
  IF clicks = << >> THEN [p1 |-> p1, p2 |-> p2]
  ELSE handle_click_input(clicks[1], turn, p1, p2)

\* render_based_on_mode: the names the players are created with.
player_one_name(mode) == IF mode = "SINGLE_PLAYER" THEN "Player" ELSE "Player One"
player_two_name(mode) == IF mode = "SINGLE_PLAYER" THEN "Computer" ELSE "Player Two"

\* Mutant of Announce: the winner is named as if the turn had not flipped.
Announce_TurnNotFlipped(turn, mode) ==
  IF turn = "DRAW" THEN "It's a draw!"
  ELSE IF turn = "TURN_P1" THEN player_one_name(mode) \o " won!"
  ELSE player_two_name(mode) \o " won!"

\* run_game, after the loop: the text of bottom_label.
Announce(turn, mode) ==
  IF turn = "DRAW" THEN "It's a draw!"
  ELSE IF turn = "TURN_P1" THEN player_two_name(mode) \o " won!"
  ELSE player_one_name(mode) \o " won!"

\* Mutant of LoopBody: the turn flips whether or not update succeeded.
LoopBody_AlwaysFlips(b, turn, p1, p2, res, mode, ai) ==
  LET agent == turn # "TURN_P1" /\ mode = "SINGLE_PLAYER"
      \* current_player.mark: player_one is "X", player_two is "O"
      mark == IF turn = "TURN_P1" THEN "X" ELSE "O"
      \* current_player.process_input()
      q1 == IF turn = "TURN_P1" THEN Player_process_input(p1) ELSE p1
      q2 == IF turn = "TURN_P1" THEN p2
            ELSE IF agent THEN ai.position ELSE Player_process_input(p2)
      b1 == IF agent THEN ai.board ELSE b
      \* self.board.update(current_player, mark, self.buttons)
      u == update(b1, mark, IF turn = "TURN_P1" THEN q1 ELSE q2)
      turn1 == IF turn = "TURN_P2" THEN "TURN_P1" ELSE "TURN_P2"
      res1 == IF u.ok THEN check_state(u.board) ELSE res
      draw == res1 = None /\ is_full(u.board)
  IN [board |-> u.board,
      current_turn |-> IF draw THEN "DRAW" ELSE turn1,
      p1 |-> q1, p2 |-> q2, result |-> res1,
      label |-> "Turn: " \o (IF turn = "TURN_P1" THEN player_one_name(mode)
                                                    ELSE player_two_name(mode)),
      mode |-> mode, agent |-> agent, mark |-> mark, left |-> b1, placed |-> u.ok,
      raised |-> u.raised, broke |-> draw]

\* Mutant of LoopBody: `result` is not refreshed after a successful update.
LoopBody_StaleResult(b, turn, p1, p2, res, mode, ai) ==
  LET agent == turn # "TURN_P1" /\ mode = "SINGLE_PLAYER"
      \* current_player.mark: player_one is "X", player_two is "O"
      mark == IF turn = "TURN_P1" THEN "X" ELSE "O"
      \* current_player.process_input()
      q1 == IF turn = "TURN_P1" THEN Player_process_input(p1) ELSE p1
      q2 == IF turn = "TURN_P1" THEN p2
            ELSE IF agent THEN ai.position ELSE Player_process_input(p2)
      b1 == IF agent THEN ai.board ELSE b
      \* self.board.update(current_player, mark, self.buttons)
      u == update(b1, mark, IF turn = "TURN_P1" THEN q1 ELSE q2)
      turn1 == IF u.ok THEN (IF turn = "TURN_P2" THEN "TURN_P1" ELSE "TURN_P2")
               ELSE turn
      res1 == res
      draw == res1 = None /\ is_full(u.board)
  IN [board |-> u.board,
      current_turn |-> IF draw THEN "DRAW" ELSE turn1,
      p1 |-> q1, p2 |-> q2, result |-> res1,
      label |-> "Turn: " \o (IF turn = "TURN_P1" THEN player_one_name(mode)
                                                    ELSE player_two_name(mode)),
      mode |-> mode, agent |-> agent, mark |-> mark, left |-> b1, placed |-> u.ok,
      raised |-> u.raised, broke |-> draw]

\* run_game, one pass through the body of the loop, up to window.update().
\* `ai` is AIAgent.process_input on board b; it is read only when the
\* current player is the agent.
LoopBody(b, turn, p1, p2, res, mode, ai) ==
  LET agent == turn # "TURN_P1" /\ mode = "SINGLE_PLAYER"
      \* current_player.mark: player_one is "X", player_two is "O"
      mark == IF turn = "TURN_P1" THEN "X" ELSE "O"
      \* current_player.process_input()
      q1 == IF turn = "TURN_P1" THEN Player_process_input(p1) ELSE p1
      q2 == IF turn = "TURN_P1" THEN p2
            ELSE IF agent THEN ai.position ELSE Player_process_input(p2)
      b1 == IF agent THEN ai.board ELSE b
      \* self.board.update(current_player, mark, self.buttons)
      u == update(b1, mark, IF turn = "TURN_P1" THEN q1 ELSE q2)
      turn1 == IF u.ok THEN (IF turn = "TURN_P2" THEN "TURN_P1" ELSE "TURN_P2")
               ELSE turn
      res1 == IF u.ok THEN check_state(u.board) ELSE res
      draw == res1 = None /\ is_full(u.board)
  IN [board |-> u.board,
      current_turn |-> IF draw THEN "DRAW" ELSE turn1,
      p1 |-> q1, p2 |-> q2, result |-> res1,
      label |-> "Turn: " \o (IF turn = "TURN_P1" THEN player_one_name(mode)
                                                    ELSE player_two_name(mode)),
      mode |-> mode, agent |-> agent, mark |-> mark, left |-> b1, placed |-> u.ok,
      raised |-> u.raised, broke |-> draw]

\* The values of the variables after a pass through the body: control is at
\* window.update(), or past the loop when the pass ended in `break`.
AfterBody(s, searched, history, observed) ==
  [board |-> s.board,
   current_turn |-> s.current_turn,
   p1_position |-> s.p1,
   p2_position |-> s.p2,
   result |-> s.result,
   pc |-> IF s.raised THEN "error" ELSE IF s.broke THEN "over" ELSE "loop",
   bottom_label |-> IF s.broke THEN Announce(s.current_turn, s.mode) ELSE s.label,
   applied |-> IF s.placed THEN Append(history, s.mark) ELSE history,
   call |-> IF s.agent
            THEN [op |-> "process_input", mark |-> s.mark, pre |-> searched,
                  post |-> s.left, ret |-> s.p2, again |-> FALSE,
                  first |-> PositionNone]
            ELSE observed]

\* The variables take the values of record n; game_mode is set by the caller.
Commit(n) ==
  /\ board' = n.board
  /\ current_turn' = n.current_turn
  /\ p1_position' = n.p1_position
  /\ p2_position' = n.p2_position
  /\ result' = n.result
  /\ pc' = n.pc
  /\ bottom_label' = n.bottom_label
  /\ applied' = n.applied
  /\ call' = n.call

NoCall == [op |-> "none"]

\* TicTacToe.__init__: a Board, the main menu; no players and no turn yet.
Init ==
  /\ board = EmptyBoard
  /\ game_mode = "MAIN_MENU"
  /\ current_turn = None
  /\ p1_position = PositionNone
  /\ p2_position = PositionNone
  /\ result = None
  /\ bottom_label = None
  /\ pc = "menu"
  /\ applied = << >>
  /\ call = NoCall

\* A menu button: set_game_mode(mode), render_based_on_mode creates the
\* players, run_game resets players, board and turn and runs the loop up to
\* its first window.update().
\* What is observed of the start of a session: the board the previous
\* session left, and whether it left a pending position or a finished game.
Started ==
  [op |-> "run_game", pre |-> board,
   stale |-> p1_position \in Cells \/ p2_position \in Cells,
   ended |-> IF current_turn = "DRAW" THEN "DRAW" ELSE result]

\* Mutant of SelectMode: run_game does not call board.reset().
SelectMode_NoBoardReset(mode) ==
  /\ pc = "menu"
  /\ game_mode' = mode
  /\ Commit(AfterBody(LoopBody(board, "TURN_P1", Player_reset, Player_reset,
                               check_state(board), mode,
                               AIAgent_process_input(reset, AIAgent("O"))),
                      board, << >>, Started))

SelectMode(mode) ==
  /\ pc = "menu"
  /\ game_mode' = mode
  /\ Commit(AfterBody(LoopBody(reset, "TURN_P1", Player_reset, Player_reset,
                               check_state(reset), mode,
                               AIAgent_process_input(reset, AIAgent("O"))),
                      reset, << >>, Started))

\* Mutant of AfterEvents: `while not result` is `while True`, the loop is
\* left only by the break on a draw.
AfterEvents_IgnoresResult(clicks, ai) ==
  LET w == window_update(clicks, current_turn, p1_position, p2_position)
  IN AfterBody(LoopBody(board, current_turn, w.p1, w.p2, result,
                        game_mode, ai),
               board, applied, IF call.op = "run_game" THEN NoCall ELSE call)

\* window.update() inside the loop with the clicks it delivers, then the loop
\* condition and the next pass through the body.
AfterEvents(clicks, ai) ==
  LET w == window_update(clicks, current_turn, p1_position, p2_position)
  IN IF result # None
     THEN \* `while not result` ends the loop
          [board |-> board, current_turn |-> current_turn,
           p1_position |-> w.p1, p2_position |-> w.p2, result |-> result,
           pc |-> "over", bottom_label |-> Announce(current_turn, game_mode),
           applied |-> applied, call |-> call]
     ELSE AfterBody(LoopBody(board, current_turn, w.p1, w.p2, result,
                             game_mode, ai),
                    board, applied, IF call.op = "run_game" THEN NoCall ELSE call)

\* The agent reads the board only and the callbacks write positions only, so
\* its search is the same for every batch of clicks.
EventsOutcomes ==
  LET ai == AIAgent_process_input(board, AIAgent("O"))
  IN {AfterEvents(clicks, ai) : clicks \in ClickBatches}

Events ==
  /\ pc = "loop"
  /\ UNCHANGED game_mode
  /\ \E n \in EventsOutcomes : Commit(n)

\* After the game the board buttons still exist: a click in mainloop.
ClickOver ==
  /\ pc = "over"
  /\ \E c \in Cells :
       LET w == handle_click_input(c, current_turn, p1_position, p2_position)
       IN /\ p1_position' = w.p1
          /\ p2_position' = w.p2
  /\ UNCHANGED <<board, game_mode, current_turn, result, bottom_label, pc,
                 applied, call>>

\* The Continue button: set_game_mode(MAIN_MENU) destroys the widgets and
\* shows the menu.
Continue ==
  /\ pc = "over"
  /\ game_mode' = "MAIN_MENU"
  /\ pc' = "menu"
  /\ bottom_label' = None
  /\ UNCHANGED <<board, current_turn, p1_position, p2_position, result,
                 applied, call>>

Next ==
  \/ \E mode \in {"SINGLE_PLAYER", "MULTIPLAYER"} : SelectMode(mode)
  \/ Events
  \/ ClickOver
  \/ Continue

Spec == Init /\ [][Next]_vars

\* The current player is the agent.
AgentTurn == game_mode = "SINGLE_PLAYER" /\ current_turn = "TURN_P2"

\* The steps that fairness is asked of, each given by what it does to the
\* state, so that whether it is enabled is read off the state.
\* On a human player's turn: window.update() delivers a click on an Empty
\* cell c and the next pass writes the player's mark there.
ClickEmpty ==
  /\ pc = "loop"
  /\ result = None
  /\ ~AgentTurn
  /\ \E c \in EmptyCells(board) :
       board' = [board EXCEPT ![c] = IF current_turn = "TURN_P1" THEN "X" ELSE "O"]

\* On the agent's turn: the next pass applies the agent's move.
AgentPass ==
  /\ pc = "loop"
  /\ result = None
  /\ AgentTurn
  /\ applied' = Append(applied, "O")

\* `while not result` finds the result set and the loop is left.
LeaveLoop ==
  /\ pc = "loop"
  /\ result # None
  /\ pc' = "over"

\* The loop of run_game keeps running (window.update() returns and the next
\* pass follows), and a human player whose turn it is eventually clicks an
\* Empty cell.
SpecFair ==
  Spec /\ WF_board(ClickEmpty) /\ WF_applied(AgentPass) /\ WF_pc(LeaveLoop)

(***************************************************************************)
(* SpecBoard: a Board and an AIAgent on it, their methods called in any    *)
(* order with any arguments.  A call is observed (pc = "called", the       *)
(* record `call`) and then returns (pc = "idle").                          *)
(***************************************************************************)
Positions == (0 - PosMargin)..(8 + PosMargin)

\* The boards on which the search is run here.
Searchable(b) == b = EmptyBoard \/ Len(get_available_positions(b)) <= MaxSearch

InitBoard ==
  /\ board = EmptyBoard
  /\ game_mode = "MAIN_MENU"
  /\ current_turn = None
  /\ p1_position = PositionNone
  /\ p2_position = PositionNone
  /\ result = None
  /\ bottom_label = None
  /\ pc = "idle"
  /\ applied = << >>
  /\ call = NoCall

Untouched == UNCHANGED <<game_mode, current_turn, p1_position, p2_position,
                         result, bottom_label, applied>>

\* board.update(player, ...) for a player with this mark and position
CallUpdate ==
  /\ pc = "idle"
  /\ \E mark \in Marks, position \in Positions :
       LET u == update(board, mark, position)
       IN /\ board' = u.board
          /\ call' = [op |-> "update", mark |-> mark, position |-> position,
                      pre |-> board, post |-> u.board, ret |-> u.ok]
  /\ pc' = "called"
  /\ Untouched

\* board.reset()
CallReset ==
  /\ pc = "idle"
  /\ board' = reset
  /\ call' = [op |-> "reset", pre |-> board, post |-> reset]
  /\ pc' = "called"
  /\ Untouched

\* board.check_state()
CallCheckState ==
  /\ pc = "idle"
  /\ call' = [op |-> "check_state", pre |-> board, post |-> board,
              ret |-> check_state(board)]
  /\ pc' = "called"
  /\ UNCHANGED board
  /\ Untouched

\* board.is_full()
CallIsFull ==
  /\ pc = "idle"
  /\ call' = [op |-> "is_full", pre |-> board, post |-> board,
              ret |-> is_full(board)]
  /\ pc' = "called"
  /\ UNCHANGED board
  /\ Untouched

\* board.get_available_positions()
CallGetAvailablePositions ==
  /\ pc = "idle"
  /\ call' = [op |-> "get_available_positions", pre |-> board, post |-> board,
              ret |-> get_available_positions(board)]
  /\ pc' = "called"
  /\ UNCHANGED board
  /\ Untouched

\* The board and the observation after agent.process_input() of an agent
\* with this mark.
Searched(mark, again, first) ==
  LET r == AIAgent_process_input(board, AIAgent(mark))
  IN [board |-> r.board,
      call |-> [op |-> "process_input", mark |-> mark, pre |-> board,
                post |-> r.board, ret |-> r.position, again |-> again,
                first |-> first, depth |-> r.depth]]

\* agent.process_input() of an agent with either mark
CallProcessInput ==
  /\ pc = "idle"
  /\ Searchable(board)
  /\ \E mark \in Marks :
       \E n \in {Searched(mark, FALSE, PositionNone)} :
          /\ board' = n.board
          /\ call' = n.call
  /\ pc' = "called"
  /\ Untouched

\* agent.process_input() once more, by the same agent, on the board as the
\* first call left it
CallProcessInputAgain ==
  /\ pc = "called"
  /\ call.op = "process_input"
  /\ ~call.again
  /\ Searchable(board)
  /\ \E n \in {Searched(call.mark, TRUE, call.ret)} :
       /\ board' = n.board
       /\ call' = n.call
  /\ pc' = "called"
  /\ Untouched

\* agent.minimax(0, is_maximazing) of an agent with either mark
CallMinimax ==
  /\ pc = "idle"
  /\ Len(get_available_positions(board)) <= MaxSearch
  /\ \E mark \in Marks, is_maximazing \in BOOLEAN :
       \E r \in {minimax(board, AIAgent(mark), 0, is_maximazing)} :
          /\ board' = r.board
          /\ call' = [op |-> "minimax", mark |-> mark,
                      is_maximazing |-> is_maximazing, pre |-> board,
                      post |-> r.board, ret |-> r.score, depth |-> r.depth]
  /\ pc' = "called"
  /\ Untouched

\* The call returns.
Return ==
  /\ pc = "called"
  /\ pc' = "idle"
  /\ call' = NoCall
  /\ UNCHANGED board
  /\ Untouched

NextBoard ==
  \/ CallUpdate
  \/ CallReset
  \/ CallCheckState
  \/ CallIsFull
  \/ CallGetAvailablePositions
  \/ CallProcessInput
  \/ CallProcessInputAgain
  \/ CallMinimax
  \/ Return

SpecBoard == InitBoard /\ [][NextBoard]_vars

(***************************************************************************)
(* Vocabulary of the properties, independent of the operators above.       *)
(***************************************************************************)
\* The 8 winning lines in the order rows top to bottom, columns left to
\* right, diagonal 0-4-8, diagonal 6-4-2.
Lines == << <<0, 1, 2>>, <<3, 4, 5>>, <<6, 7, 8>>,
            <<0, 3, 6>>, <<1, 4, 7>>, <<2, 5, 8>>,
            <<0, 4, 8>>, <<6, 4, 2>> >>

Filled(b, l, m) == b[l[1]] = m /\ b[l[2]] = m /\ b[l[3]] = m
HasLine(b, m) == \E k \in 1..8 : Filled(b, Lines[k], m)
NoLine(b) == ~HasLine(b, "X") /\ ~HasLine(b, "O")
Full(b) == EmptyCells(b) = {}
Opponent(m) == IF m = "X" THEN "O" ELSE "X"
\* The empty cells that complete a line of mark m.
Completing(b, m) == {e \in EmptyCells(b) : HasLine([b EXCEPT ![e] = m], m)}
\* The lines of b filled with one mark, by their number in Lines.
FilledLines(b) == {k \in 1..8 : Filled(b, Lines[k], "X") \/ Filled(b, Lines[k], "O")}
Least(S) == CHOOSE k \in S : \A j \in S : k <= j
Greatest(S) == CHOOSE k \in S : \A j \in S : k >= j

\* The value of board b to the player of mark m when `mover` is to move and
\* both sides play optimally to the end of the game: 1 a line of m, -1 a line
\* of the other mark, 0 a full board with no line.
RECURSIVE GameValue(_, _, _)
GameValue(b, m, mover) ==
  IF HasLine(b, m) THEN 1
  ELSE IF HasLine(b, Opponent(m)) THEN -1
  ELSE IF Full(b) THEN 0
  ELSE LET values == {GameValue([b EXCEPT ![e] = mover], m, Opponent(mover)) :
                        e \in EmptyCells(b)}
       IN IF mover = m THEN Greatest(values) ELSE Least(values)

\* The player of mark w can force a line of w on board b when `mover` is to
\* move: it holds one, or the game goes on (the other mark holds none and a
\* cell is Empty) and some move of w, or every move of the other player,
\* leads to a board where it can.
RECURSIVE CanForce(_, _, _)
CanForce(b, w, mover) ==
  IF HasLine(b, w) THEN TRUE
  ELSE IF HasLine(b, Opponent(w)) \/ Full(b) THEN FALSE
  ELSE IF mover = w
       THEN \E e \in EmptyCells(b) : CanForce([b EXCEPT ![e] = w], w, Opponent(w))
       ELSE \A e \in EmptyCells(b) : CanForce([b EXCEPT ![e] = mover], w, w)

\* The value to m of placing its mark on the Empty cell e of b.
MoveValue(b, m, e) == GameValue([b EXCEPT ![e] = m], m, Opponent(m))
\* The Empty cells of b whose value to m is maximal.
BestMoves(b, m) ==
  {e \in EmptyCells(b) : \A f \in EmptyCells(b) : MoveValue(b, m, e) >= MoveValue(b, m, f)}

(***************************************************************************)
(* The properties.                                                         *)
(***************************************************************************)

\* C1: in a single-player game (human X moves first, the agent O chooses
\* every move with process_input) no board ever holds a completed line of
\* X, and when the game is over the board holds a completed line of O or
\* is full with no completed line.
C1_EngineNeverLoses ==
  game_mode = "SINGLE_PLAYER" =>
    /\ ~HasLine(board, "X")
    /\ pc # "error"
    /\ pc = "over" => \/ HasLine(board, "O") /\ result = "O"
                      \/ Full(board) /\ NoLine(board) /\ current_turn = "DRAW"

\* C1 witness: a single-player game that the agent has won.
C1_Witness ==
  /\ game_mode = "SINGLE_PLAYER"
  /\ pc = "over"
  /\ HasLine(board, "O")
  /\ call.op = "process_input"

\* C2: after AIAgent.process_input returns, and after any call of
\* AIAgent.minimax returns, all 9 cells hold the values they held before the
\* call, for every board and either mark of the agent.
C2_SearchRestoresBoard ==
  call.op \in {"process_input", "minimax"} => call.post = call.pre

\* C2 witness: a search over at least two empty cells has returned a move.
C2_Witness ==
  /\ call.op = "process_input"
  /\ Cardinality(EmptyCells(call.pre)) >= 2
  /\ call.ret \in EmptyCells(call.pre)
  /\ call.post = call.pre

\* C3: Board.update returns True and writes the player's mark to exactly
\* the target cell iff the position is in 0..8 and the cell is Empty; for
\* any other position it returns False and leaves the 9 cells unchanged.
C3_UpdateLegality ==
  call.op = "update" =>
    LET legal == call.position \in Cells /\ call.pre[call.position] = " "
    IN /\ call.ret = legal
       /\ legal => call.post = [call.pre EXCEPT ![call.position] = call.mark]
       /\ ~legal => call.post = call.pre

\* C3 witness: an update refused because the cell is occupied.
C3_Witness ==
  /\ call.op = "update"
  /\ call.position \in Cells
  /\ call.pre[call.position] # " "
  /\ call.ret = FALSE

\* C4 as stated: on a full board with no completed line check_state returns
\* Draw, a value different from the "in progress" value (None) it returns
\* on a board with an Empty cell and no completed line.
C4_Original ==
  (call.op = "check_state" /\ NoLine(call.pre) /\ Full(call.pre))
    => call.ret # None

\* C4 amended: with no completed line check_state returns None whether the
\* board is full or not; is_full is what tells the draw from the game in
\* progress: it returns True iff no cell is Empty.
C4_DrawByIsFull ==
  /\ (call.op = "check_state" /\ NoLine(call.pre)) => call.ret = None
  /\ call.op = "is_full" => call.ret = Full(call.pre)

\* C4 witness: check_state has returned None on a full board with no line.
C4_Witness ==
  /\ call.op = "check_state"
  /\ Full(call.pre)
  /\ NoLine(call.pre)
  /\ call.ret = None

\* C5: check_state returns a mark iff at least one of the 8 lines is filled
\* with one mark, and then the mark of the first such line in the order
\* rows, columns, 0-4-8, 6-4-2; otherwise it returns None.
C5_FirstFilledLine ==
  call.op = "check_state" =>
    IF FilledLines(call.pre) = {}
    THEN call.ret = None
    ELSE call.ret = call.pre[Lines[Least(FilledLines(call.pre))][1]]

\* C5 witness: two lines filled with different marks, the first one's mark
\* returned.
C5_Witness ==
  /\ call.op = "check_state"
  /\ HasLine(call.pre, "X")
  /\ HasLine(call.pre, "O")
  /\ call.ret = call.pre[Lines[Least(FilledLines(call.pre))][1]]

\* C6 as stated: on a board with no completed line where the agent's mark
\* has two cells of a line and the third is Empty, process_input returns a
\* cell that completes a line.
C6_Original ==
  (/\ call.op = "process_input"
   /\ NoLine(call.pre)
   /\ Completing(call.pre, call.mark) # {})
    => call.ret \in Completing(call.pre, call.mark)

\* C7 as stated: on a board with no completed line where the opponent has
\* two cells of a line with the third Empty and the agent has no completing
\* cell, process_input returns a cell that blocks such a line.
C7_Original ==
  (/\ call.op = "process_input"
   /\ NoLine(call.pre)
   /\ Completing(call.pre, Opponent(call.mark)) # {}
   /\ Completing(call.pre, call.mark) = {})
    => call.ret \in Completing(call.pre, Opponent(call.mark))

\* C8: on the empty board process_input selects a corner (0, 2, 6 or 8),
\* and a second invocation by the same agent right after the first, on any
\* board, selects the same index as the first.
C8_CornerAndRepeatable ==
  /\ (call.op = "process_input" /\ call.pre = EmptyBoard)
       => call.ret \in {0, 2, 6, 8}
  /\ (call.op = "process_input" /\ call.again) => call.ret = call.first

\* C8 witness: the second invocation on the empty board has returned.
C8_Witness ==
  /\ call.op = "process_input"
  /\ call.again
  /\ call.pre = EmptyBoard
  /\ call.ret = 0

\* C9: in run_game the turn follows the number of moves update has applied:
\* TURN_P1 after an even number, TURN_P2 after an odd number (so a pass whose
\* update fails leaves it unchanged), and the k-th applied mark is X for odd
\* k and O for even k; each applied move fills one more cell.
C9_TurnsAlternate ==
  pc \in {"loop", "over"} =>
    /\ \A k \in 1..Len(applied) : applied[k] = IF k % 2 = 1 THEN "X" ELSE "O"
    /\ Cardinality(Cells \ EmptyCells(board)) = Len(applied)
    /\ current_turn \in {"TURN_P1", "TURN_P2", "DRAW"}
    /\ current_turn = "TURN_P1" => Len(applied) % 2 = 0
    /\ current_turn = "TURN_P2" => Len(applied) % 2 = 1
    /\ current_turn = "DRAW" => Len(applied) = 9

\* C9 witness: three moves applied, and player_two's pending position is an
\* occupied cell, so the passes until the next click fail to update.
C9_Witness ==
  /\ pc = "loop"
  /\ game_mode = "MULTIPLAYER"
  /\ applied = <<"X", "O", "X">>
  /\ current_turn = "TURN_P2"
  /\ result = None
  /\ p2_position \in Cells
  /\ board[p2_position] # " "

\* C10: in run_game process_input of the agent is only invoked on a board
\* with no completed line and at least one Empty cell.
C10_SearchOnlyInProgress ==
  call.op = "process_input" => NoLine(call.pre) /\ EmptyCells(call.pre) # {}

\* C10 witness: the agent was invoked with two Empty cells left.
C10_Witness ==
  /\ call.op = "process_input"
  /\ Cardinality(EmptyCells(call.pre)) = 2
  /\ pc = "loop"

\* C11: process_input never yields an illegal move: on every board with an
\* Empty cell, a board with a completed line included, the position it sets
\* is the index of an Empty cell; on a board with no Empty cell it sets no
\* position (None), never a cell index.
C11_NeverIllegalMove ==
  call.op = "process_input" =>
    IF EmptyCells(call.pre) = {}
    THEN call.ret = PositionNone
    ELSE call.ret \in EmptyCells(call.pre)

\* C11 witness: the agent has chosen an Empty cell on a board that already
\* holds a completed line of its opponent.
C11_Witness ==
  /\ call.op = "process_input"
  /\ HasLine(call.pre, Opponent(call.mark))
  /\ EmptyCells(call.pre) # {}
  /\ call.ret \in EmptyCells(call.pre)

\* The cells of line number k.
LineCells(k) == {Lines[k][1], Lines[k][2], Lines[k][3]}

\* C12 as stated: a board reached in run_game never holds more than one
\* completed line.
C12_Original ==
  pc \in {"loop", "over"} => Cardinality(FilledLines(board)) <= 1

\* C12 amended: a board reached in run_game holds at most two completed
\* lines; when it holds two they cross in one cell and both are of the mark
\* applied last, and the game is over.
C12_AtMostTwoCrossingLines ==
  pc \in {"loop", "over"} =>
    /\ Cardinality(FilledLines(board)) <= 2
    /\ \A j, k \in FilledLines(board) :
         j # k => /\ Cardinality(LineCells(j) \cap LineCells(k)) = 1
                  /\ Filled(board, Lines[j], applied[Len(applied)])
                  /\ Filled(board, Lines[k], applied[Len(applied)])
                  /\ result = applied[Len(applied)]

\* C12 witness: a multiplayer game that ended with two completed lines of X.
C12_Witness ==
  /\ game_mode = "MULTIPLAYER"
  /\ pc = "over"
  /\ Cardinality(FilledLines(board)) = 2
  /\ result = "X"

\* C13: no board reached in run_game holds a completed line of X together
\* with a completed line of O, so every completed line carries the mark that
\* check_state returned, whichever of the 8 lines is evaluated first; with
\* no completed line the result is None.
C13_OneOutcome ==
  pc \in {"loop", "over"} =>
    /\ ~(HasLine(board, "X") /\ HasLine(board, "O"))
    /\ \A k \in FilledLines(board) : board[Lines[k][1]] = result
    /\ FilledLines(board) = {} => result = None

\* C13 witness: a multiplayer game won by O on the line evaluated last
\* (6-4-2), with 8 cells filled.
C13_Witness ==
  /\ game_mode = "MULTIPLAYER"
  /\ pc = "over"
  /\ result = "O"
  /\ FilledLines(board) = {8}
  /\ Len(applied) = 8

\* C14: within a session, from one pass of the game loop to the next, a cell
\* that is not Empty keeps its mark; cells become Empty again only by the
\* Board.reset of run_game at the start of the next session, which empties
\* all 9.
C14_MarksPersist ==
  [][/\ pc # "menu" => \A i \in Cells : board[i] # " " => board'[i] = board[i]
     /\ pc = "menu" => board' = EmptyBoard]_vars

\* C14 witness: a single-player game in which the agent has searched a board
\* holding five marks and six marks stand on the board afterwards.
C14_Witness ==
  /\ game_mode = "SINGLE_PLAYER"
  /\ pc = "loop"
  /\ call.op = "process_input"
  /\ Cardinality(EmptyCells(call.pre)) = 4
  /\ Cardinality(EmptyCells(board)) = 3

\* C15: on every board get_available_positions returns exactly the indices
\* of the Empty cells in strictly ascending order, and is_full returns True
\* iff that sequence is empty.
C15_AvailableAscending ==
  /\ call.op = "get_available_positions" =>
        /\ {call.ret[i] : i \in 1..Len(call.ret)} = EmptyCells(call.pre)
        /\ \A i, j \in 1..Len(call.ret) : i < j => call.ret[i] < call.ret[j]
  /\ call.op = "is_full" =>
        call.ret = (get_available_positions(call.pre) = << >>)

\* C15 witness: get_available_positions has returned four indices, the
\* first and the last cell among them.
C15_Witness ==
  /\ call.op = "get_available_positions"
  /\ Len(call.ret) = 4
  /\ call.ret[1] = 0
  /\ call.ret[4] = 8

\* C16: on every board with no completed line and an Empty cell (here: with
\* at most MaxSearch Empty cells) process_input selects the smallest index
\* among the Empty cells whose minimax value (own mark placed there, the
\* opponent to move, optimal play to the end) is maximal: never a cell of
\* lower value, never a later cell of equal value.
C16_FirstOfBestMoves ==
  (/\ call.op = "process_input"
   /\ NoLine(call.pre)
   /\ EmptyCells(call.pre) # {}
   /\ Cardinality(EmptyCells(call.pre)) <= MaxSearch)
    => call.ret = Least(BestMoves(call.pre, call.mark))

\* C16 witness: three Empty cells of three different values, the best of
\* them not the first, has been selected.
C16_Witness ==
  /\ call.op = "process_input"
  /\ NoLine(call.pre)
  /\ Cardinality(EmptyCells(call.pre)) = 3
  /\ Cardinality({MoveValue(call.pre, call.mark, e) : e \in EmptyCells(call.pre)}) = 3
  /\ call.ret # Least(EmptyCells(call.pre))
  /\ call.ret \in BestMoves(call.pre, call.mark)

\* C17: every session of run_game starts from the same state however the
\* previous one ended (a win, a draw, any board, any pending position): all
\* 9 cells Empty, the turn TURN_P1, both players' positions -1, no result.
C17_SessionStartsFresh ==
  call.op = "run_game" =>
    /\ board = EmptyBoard
    /\ current_turn = "TURN_P1"
    /\ p1_position = -1
    /\ p2_position = -1
    /\ result = None
    /\ applied = << >>
    /\ pc = "loop"

\* C17 witness: a session has started after one that ended in a draw with a
\* position still pending.
C17_Witness ==
  /\ call.op = "run_game"
  /\ call.ended = "DRAW"
  /\ Full(call.pre)
  /\ call.stale
  /\ board = EmptyBoard

\* The board after window.update() delivers a click on cell c and the next
\* pass of the loop runs, on a human player's turn.
AfterClick(c) ==
  AfterEvents(<<c>>, [position |-> PositionNone, board |-> board, depth |-> 0]).board

\* C18: a game takes at most 9 applied moves; on a human player's turn a
\* click on an Empty cell is applied by the next pass, and in single-player
\* mode a pass on the agent's turn applies the agent's move whatever the
\* clicks; so, when the loop keeps running and every human turn eventually
\* gets a click on an Empty cell, run_game leaves its loop, and it does so
\* with a completed line or in the DRAW state.
C18_GameTerminates ==
  /\ [](Len(applied) <= 9)
  /\ [](pc = "over" => (HasLine(board, result) \/ current_turn = "DRAW"))
  /\ []((pc = "loop" /\ result = None /\ ~AgentTurn) =>
          /\ EmptyCells(board) # {}
          /\ \A c \in EmptyCells(board) :
               AfterClick(c) =
                 [board EXCEPT ![c] = IF current_turn = "TURN_P1" THEN "X" ELSE "O"])
  /\ [][(pc = "loop" /\ result = None /\ AgentTurn)
         => (applied' = Append(applied, "O") /\ current_turn' # "TURN_P2")]_vars
  /\ (pc = "loop") ~> (pc = "over")

\* C18 witness: a multiplayer game that ended in a draw after 9 moves.
C18_Witness ==
  /\ game_mode = "MULTIPLAYER"
  /\ pc = "over"
  /\ Len(applied) = 9
  /\ current_turn = "DRAW"

\* The player to move in a call of minimax: the agent when is_maximazing.
Mover(c) == IF c.is_maximazing THEN c.mark ELSE Opponent(c.mark)

FirstLineMark(b) == b[Lines[Least(FilledLines(b))][1]]

PlayerOfMark(m, mode) == IF m = "X" THEN player_one_name(mode) ELSE player_two_name(mode)

\* C20: when run_game has left its loop the announcement matches the board:
\* a draw is announced iff the board is full and check_state returns None;
\* otherwise the player announced as winner is the one whose mark
\* check_state returns, who applied the last move, the turn having already
\* passed to the other side.
C20_AnnouncementMatchesBoard ==
  pc = "over" =>
    /\ bottom_label = "It's a draw!" <=> (Full(board) /\ check_state(board) = None)
    /\ bottom_label # "It's a draw!" =>
         /\ check_state(board) \in Marks
         /\ bottom_label = PlayerOfMark(check_state(board), game_mode) \o " won!"
         /\ applied[Len(applied)] = check_state(board)
         /\ current_turn = IF check_state(board) = "X" THEN "TURN_P2" ELSE "TURN_P1"

\* C20 witness: player one has won a multiplayer game with the ninth move,
\* on a full board.
C20_Witness ==
  /\ pc = "over"
  /\ game_mode = "MULTIPLAYER"
  /\ Full(board)
  /\ check_state(board) = "X"
  /\ bottom_label = "Player One won!"

\* The mark of the side whose turn it is.
TurnMark == IF current_turn = "TURN_P1" THEN "X" ELSE "O"

\* The state after window.update() delivers `clicks` and the next pass of
\* the loop runs, on a human player's turn.
HumanOutcome(clicks) ==
  AfterEvents(clicks, [position |-> PositionNone, board |-> board, depth |-> 0])

\* C21: whatever window.update() delivers between two passes of the loop,
\* a click places only the mark of the side whose turn it is when it is
\* handled.  A position left from an earlier turn is on a cell that is not
\* Empty; process_input does not clear it, and with no click the next pass
\* applies nothing.  On a human's turn a click on cell c goes to the current
\* player only and the pass writes that player's mark on c iff c is Empty.
\* In single-player mode on the agent's turn every batch of clicks leads to
\* the same board, with one more O on the cell process_input chose, the
\* human player's position untouched and no X placed.
C21_ClicksPlaceTheTurnsMark ==
  (pc = "loop" /\ result = None) =>
    /\ p1_position \in Cells => board[p1_position] # " "
    /\ p2_position \in Cells => board[p2_position] # " "
    /\ IF AgentTurn
       THEN /\ \A n \in EventsOutcomes :
                 /\ n.p2_position \in EmptyCells(board)
                 /\ n.p2_position = n.call.ret
                 /\ n.board = [board EXCEPT ![n.p2_position] = "O"]
                 /\ n.p1_position = p1_position
            /\ Cardinality({n.board : n \in EventsOutcomes}) = 1
       ELSE /\ HumanOutcome(<< >>).board = board
            /\ HumanOutcome(<< >>).p1_position = p1_position
            /\ HumanOutcome(<< >>).p2_position = p2_position
            /\ \A c \in Cells :
                 LET n == HumanOutcome(<<c>>)
                 IN /\ n.board = IF board[c] = " "
                                 THEN [board EXCEPT ![c] = TurnMark]
                                 ELSE board
                    /\ IF current_turn = "TURN_P1"
                       THEN n.p1_position = c /\ n.p2_position = p2_position
                       ELSE n.p2_position = c /\ n.p1_position = p1_position

\* C21 witness: a single-player game on the agent's turn, three moves
\* applied, the agent's position still on the cell of its previous move.
C21_Witness ==
  /\ pc = "loop"
  /\ result = None
  /\ AgentTurn
  /\ Len(applied) = 3
  /\ p2_position \in Cells
  /\ board[p2_position] = "O"
  /\ p1_position \in Cells

\* The number of cells of b that hold mark m.
Count(b, m) == Cardinality({i \in Cells : b[i] = m})

\* C22: at every boundary between passes of the loop of run_game, and after
\* the loop, the number of X cells minus the number of O cells is 0 or 1;
\* while the game is in progress it is 0 exactly when the turn is TURN_P1
\* and 1 exactly when the turn is TURN_P2.
C22_MarkCountsFollowTurn ==
  pc \in {"loop", "over"} =>
    /\ Count(board, "X") - Count(board, "O") \in {0, 1}
    /\ (pc = "loop" /\ result = None) =>
         /\ Count(board, "X") - Count(board, "O") = 0 <=> current_turn = "TURN_P1"
         /\ Count(board, "X") - Count(board, "O") = 1 <=> current_turn = "TURN_P2"

\* C22 witness: a multiplayer game in progress with three X and two O, the
\* turn with player two.
C22_Witness ==
  /\ game_mode = "MULTIPLAYER"
  /\ pc = "loop"
  /\ result = None
  /\ Count(board, "X") = 3
  /\ Count(board, "O") = 2
  /\ current_turn = "TURN_P2"

====
